---- MODULE Spec2Model ----
(***************************************************************************)
(* BugBeheer: a bug/risk tracker.                                          *)
(*   - src/server.js            Express backend: login (JWT), auth         *)
(*                              middleware, CRUD routes over the Supabase  *)
(*                              table "bugs" (and the table's SQL schema)  *)
(*   - src/unnamed/part_000     React client (App): localStorage session,  *)
(*                              handlers that query the table directly     *)
(*   - src/src/supabaseClient.ts  lazy singleton of the client's Supabase  *)
(*                              handle                                     *)
(* The table is one shared set of rows.  JavaScript values are tagged      *)
(* records so that undefined, null, NaN, numbers, strings and booleans     *)
(* stay distinct and truthiness is computed as JavaScript computes it.     *)
(***************************************************************************)
EXTENDS Integers, Sequences, FiniteSets, TLC

VARIABLES
    now,        \* Date.now(), in ms
    table,      \* the rows of public.bugs
    \* the backend (server.js)
    EXPECT_USER, EXPECT_PASS,   \* process.env.APP_USERNAME, APP_PASSWORD
    token,      \* the bearer token the HTTP caller holds: the last login's
    resp,       \* the last HTTP response of the backend
    requests,   \* the backend's requests that await the store's answer to getBug
    \* the client (App)
    APP_USER, APP_PASS,         \* process.env.REACT_APP_APP_USERNAME, _PASSWORD
    localStorage,   \* bugauth_user and bugauth_ts: a string, or null when absent
    client,     \* supabaseClient.ts: the module's singleton (TRUE: created)
    supabase,   \* App state: the handle obtained from getSupabase() (TRUE: non-null)
    authUser,   \* App state: the logged-in user, or null
    loginError, error, editError,   \* App state: the messages shown
    bugs,       \* App state: the local cache of records
    selectedId, \* App state: the record in the edit form (0: none)
    editLoading,    \* App state: an update is pending
    viewTab,    \* App state: "open" or "completed"
    labelFilters,   \* App state: the labels selected in the filter (none: all labels)
    sortField,  \* App state: "none" or "score"
    sortDir,    \* App state: "asc" or "desc"
    timer,      \* the auto-logout timeout: its deadline (0: none armed)
    inflight,   \* the responses of the store that the client still awaits
    writes      \* how many writes the client has sent to the store

srvVars == <<EXPECT_USER, EXPECT_PASS, token, resp, requests>>
appVars == <<APP_USER, APP_PASS, localStorage, client, supabase, authUser, loginError,
             error, editError, bugs, selectedId, editLoading, viewTab, labelFilters, sortField, sortDir, timer, inflight, writes>>
vars == <<now, table, srvVars, appVars>>

-----------------------------------------------------------------------------
(* Bounds *)

T0 == 5000000        \* Date.now() when the model starts
MaxEarly == 1        \* instants T0 .. T0 + MaxEarly
MaxLate == 2         \* instants around an expiry: deadline - 1 .. deadline - 1 + MaxLate
MaxId == 2           \* ids 1 .. MaxId stand for the UUIDs
MaxInflight == 2     \* responses the client awaits at a time
MaxWrites == 3       \* writes the client sends in a run

-----------------------------------------------------------------------------
(* Time *)

SESSION_MS == 5 * 60 * 1000    \* part_000:84, the client's session
JWT_MS == 8 * 3600 * 1000      \* server.js:61, expiresIn: '8h'

\* The instants the clock takes: the first ones, and the ones around the moment
\* a session of the given length that started at T0 ends.
Early == {T0 + k : k \in 0..MaxEarly}
Instants(length) == Early \cup {T0 + length - 1 + k : k \in 0..MaxLate}

\* Time passes: Date.now() moves to a later instant of S.
Tick(S) ==
    /\ \E t \in S : t > now /\ now' = t
    /\ UNCHANGED <<table, srvVars, appVars>>

-----------------------------------------------------------------------------
(* JavaScript values *)

Undefined == [t |-> "undefined"]
Null == [t |-> "null"]
NaN == [t |-> "NaN"]
Num(n) == [t |-> "number", n |-> n]
Str(s) == [t |-> "string", s |-> s]      \* s: a sequence of characters
Bool(b) == [t |-> "boolean", b |-> b]

\* JavaScript truthiness: !!v
Truthy(v) ==
    CASE v.t = "undefined" -> FALSE
      [] v.t = "null" -> FALSE
      [] v.t = "NaN" -> FALSE
      [] v.t = "number" -> v.n # 0
      [] v.t = "string" -> v.s # <<>>
      [] v.t = "boolean" -> v.b

\* a || b
Or(a, b) == IF Truthy(a) THEN a ELSE b

\* White space is the character " "; every other character is a word chunk.
RECURSIVE TrimStart(_)
TrimStart(s) == IF s # <<>> /\ Head(s) = " " THEN TrimStart(Tail(s)) ELSE s

RECURSIVE TrimEnd(_)
TrimEnd(s) ==
    IF s # <<>> /\ s[Len(s)] = " " THEN TrimEnd(SubSeq(s, 1, Len(s) - 1)) ELSE s

\* String.prototype.trim
Trim(s) == TrimEnd(TrimStart(s))

\* Decimal text: the characters of a number, and the number of a text.
Digit == <<"0", "1", "2", "3", "4", "5", "6", "7", "8", "9">>
DigitValue == [c \in {Digit[i] : i \in 1..10} |-> (CHOOSE i \in 1..10 : Digit[i] = c) - 1]
IsDigit(c) == c \in DOMAIN DigitValue

\* n.toString(), n a natural number
RECURSIVE DigitsOf(_)
DigitsOf(n) ==
    IF n < 10 THEN <<Digit[n + 1]>>
    ELSE Append(DigitsOf(n \div 10), Digit[(n % 10) + 1])

RECURSIVE ParseDigits(_)
ParseDigits(s) ==
    IF s = <<>> THEN 0
    ELSE 10 * ParseDigits(SubSeq(s, 1, Len(s) - 1)) + DigitValue[s[Len(s)]]

\* Number(v)
ToNumber(v) ==
    CASE v.t = "undefined" -> NaN
      [] v.t = "null" -> Num(0)
      [] v.t = "NaN" -> NaN
      [] v.t = "number" -> v
      [] v.t = "boolean" -> Num(IF v.b THEN 1 ELSE 0)
      [] v.t = "string" ->
            IF Trim(v.s) = <<>> THEN Num(0)
            ELSE IF \A i \in DOMAIN Trim(v.s) : IsDigit(Trim(v.s)[i])
                 THEN Num(ParseDigits(Trim(v.s)))
                 ELSE NaN

-----------------------------------------------------------------------------
(* The table public.bugs (server.js:240-251) and the Supabase calls *)

Ids == 1..MaxId

\* The column constraints of the table: a row that breaks one is refused.
RowOk(r) ==
    /\ r.description.t = "string"
    /\ r.impact.t = "number" /\ r.impact.n \in 1..5
    /\ r.likelihood.t = "number" /\ r.likelihood.n \in 1..5
    /\ r.createdAt.t = "number"
    /\ r.reference.t = "boolean"
    /\ r.ticket.t \in {"null", "string"}
    /\ r.jiraLink.t \in {"null", "string"}
    /\ r.label.t \in {"null", "string"}
    /\ r.completedAt.t \in {"null", "number"}

RowOf(t, id) == CHOOSE r \in t : r.id = id
HasRow(t, id) == \E r \in t : r.id = id

\* A call's outcome: ok, the table after it, the data it returns.
Outcome(ok, t, data) == [ok |-> ok, table |-> t, data |-> data]

\* from('bugs').insert([payload]).select().single()
Insert(t, payload, down) ==
    IF down \/ HasRow(t, payload.id) \/ ~RowOk(payload)
    THEN Outcome(FALSE, t, Null)
    ELSE Outcome(TRUE, t \cup {payload}, payload)

\* The row with the fields of changes overwritten.
Patch(r, changes) ==
    [f \in DOMAIN r |-> IF f \in DOMAIN changes THEN changes[f] ELSE r[f]]

\* from('bugs').update(changes).eq('id', id).select().single():
\* no matching row makes .single() an error
Update(t, id, changes, down) ==
    IF down \/ ~HasRow(t, id) \/ ~RowOk(Patch(RowOf(t, id), changes))
    THEN Outcome(FALSE, t, Null)
    ELSE Outcome(TRUE, (t \ {RowOf(t, id)}) \cup {Patch(RowOf(t, id), changes)},
                 Patch(RowOf(t, id), changes))

\* from('bugs').delete().eq('id', id)
Delete(t, id, down) ==
    IF down THEN Outcome(FALSE, t, Null)
    ELSE Outcome(TRUE, {r \in t : r.id # id}, Null)

\* A variant with the filter inverted: .eq('reference', true)
DeleteWhereReference(t, down) ==
    IF down THEN Outcome(FALSE, t, Null)
    ELSE Outcome(TRUE, {r \in t : r.reference # Bool(TRUE)}, Null)

\* from('bugs').delete().eq('reference', false)
DeleteWhereNotReference(t, down) ==
    IF down THEN Outcome(FALSE, t, Null)
    ELSE Outcome(TRUE, {r \in t : r.reference # Bool(FALSE)}, Null)

\* The rows as a sequence ordered by createdAt ascending (ties by id).
Before(a, b) ==
    \/ a.createdAt.n < b.createdAt.n
    \/ a.createdAt.n = b.createdAt.n /\ a.id < b.id

RECURSIVE Ordered(_)
Ordered(t) ==
    IF t = {} THEN <<>>
    ELSE LET first == CHOOSE r \in t : \A o \in t \ {r} : Before(r, o)
         IN <<first>> \o Ordered(t \ {first})

\* from('bugs').select('*').order('createdAt', { ascending: true })
Select(t, down) ==
    IF down THEN Outcome(FALSE, t, <<>>) ELSE Outcome(TRUE, t, Ordered(t))

\* from('bugs').select('*').eq('id', id).single()
SelectOne(t, id, down) ==
    IF down \/ ~HasRow(t, id) THEN Outcome(FALSE, t, Null)
    ELSE Outcome(TRUE, t, RowOf(t, id))

-----------------------------------------------------------------------------
(* server.js: the storage functions *)

\* listBugs: an error is logged and an empty list returned
listBugs(t, down) == IF Select(t, down).ok THEN Select(t, down).data ELSE <<>>

\* getBug: an error (no such row, or the store down) gives null
getBug(t, id, down) ==
    IF SelectOne(t, id, down).ok THEN SelectOne(t, id, down).data ELSE Null

\* createBug, updateBug, deleteBug, deleteAllNonReference: an error is thrown
\* (ok = FALSE)
createBug(t, payload, down) == Insert(t, payload, down)
updateBug(t, id, changes, down) == Update(t, id, changes, down)
deleteBug(t, id, down) == Delete(t, id, down)
deleteAllNonReference(t, down) == DeleteWhereNotReference(t, down)

ALLOWED_LABELS ==
    { Str(<<"Betaalopdrachten">>), Str(<<"Betaalverzoeken Parro">>),
      Str(<<"Betaalverzoeken Email">>), Str(<<"TSO">>),
      Str(<<"Accounts / login">>), Str(<<"Beheer & Instellingen">>) }

-----------------------------------------------------------------------------
(* server.js: login and the auth middleware *)

\* jwt.sign({ u: username }, JWT_SECRET, { expiresIn: '8h' }): iat and exp in seconds
Sign(username, at) ==
    [sig |-> "JWT_SECRET", u |-> username,
     iat |-> at \div 1000, exp |-> (at \div 1000) + (JWT_MS \div 1000)]

\* A token signed with another secret, never expiring within the model.
Forged == [sig |-> "other", u |-> Str(<<"admin">>), iat |-> 0, exp |-> T0 + T0]

\* jwt.verify(tok, JWT_SECRET): the signature is ours and the token has not expired
Verify(tok, at) == tok.sig = "JWT_SECRET" /\ (at \div 1000) < tok.exp

\* The Authorization headers a caller can send, holding token tok.
NoHeader == [scheme |-> "none"]
AuthHeaders(tok) ==
    {NoHeader, [scheme |-> "Bearer", tok |-> Forged], [scheme |-> "Basic", tok |-> tok],
     [scheme |-> "Bearer", tok |-> tok]}

\* A variant that takes any bearer token without verifying it.
AnyBearer(auth, at) == auth.scheme = "Bearer"

\* authMiddleware for a path other than /api/login and /api/health:
\* TRUE when next() is called, FALSE when it answers 401
authMiddleware(auth, at) ==
    /\ auth.scheme = "Bearer"
    /\ Verify(auth.tok, at)

\* The response, with the Authorization header of its request: calls counts
\* the handler's calls of the store, failed tells that one of them returned an
\* error, preserved is the X-Reference-Preserved header (-1 when not sent).
Response(auth, route, id, status, calls, failed, preserved) ==
    [auth |-> auth, route |-> route, id |-> id, status |-> status,
     calls |-> calls, failed |-> failed, preserved |-> preserved]

Respond(auth, route, id, status, calls, failed) ==
    resp' = Response(auth, route, id, status, calls, failed, -1)

\* POST /api/login
PostLogin(username, password) ==
    /\ IF username = EXPECT_USER /\ password = EXPECT_PASS
       THEN /\ token' = Sign(username, now)
            /\ Respond(NoHeader, "POST /api/login", 0, 200, 0, FALSE)
       ELSE /\ token' = token
            /\ Respond(NoHeader, "POST /api/login", 0, 401, 0, FALSE)
    /\ UNCHANGED <<now, table, EXPECT_USER, EXPECT_PASS, requests, appVars>>

\* What the middleware answers to a request it refuses.
Unauthorized(auth, route, id) ==
    /\ Respond(auth, route, id, 401, 0, FALSE)
    /\ UNCHANGED <<now, table, EXPECT_USER, EXPECT_PASS, token, requests, appVars>>

-----------------------------------------------------------------------------
(* server.js: the routes behind the middleware.  auth is the request's      *)
(* Authorization header; out is the number of the handler's store call that *)
(* fails (0: none fails).                                                    *)

srvFrame == UNCHANGED <<now, EXPECT_USER, EXPECT_PASS, token, requests, appVars>>

\* GET /api/bugs
GetBugs(auth, out) ==
    IF ~authMiddleware(auth, now) THEN Unauthorized(auth, "GET /api/bugs", 0)
    ELSE /\ Respond(auth, "GET /api/bugs", 0, 200, 1, out = 1)
         /\ table' = table
         /\ srvFrame

\* The row POST /api/bugs builds from the request body.
newBug(body, id, at) ==
    [id |-> id,
     ticket |-> Or(IF body.ticket.t = "string" THEN Str(Trim(body.ticket.s)) ELSE Str(<<>>),
                   Null),
     description |-> Str(Trim(body.description.s)),
     jiraLink |-> Or(body.jiraLink, Null),
     impact |-> Or(ToNumber(body.impact), Num(1)),
     likelihood |-> Or(ToNumber(body.likelihood), Num(1)),
     label |-> IF Truthy(body.label) THEN body.label ELSE Null,
     completedAt |-> Null,
     createdAt |-> Num(at),
     reference |-> Bool(Truthy(body.reference))]

\* A variant of the create route without the label check.
PostBugsUnchecked(auth, body, id, out) ==
    IF ~authMiddleware(auth, now) THEN Unauthorized(auth, "POST /api/bugs", 0)
    ELSE IF ~Truthy(body.description) \/ body.description.t # "string"
    THEN /\ Respond(auth, "POST /api/bugs", 0, 400, 0, FALSE)
         /\ table' = table
         /\ srvFrame
    ELSE LET r == createBug(table, newBug(body, id, now), out = 1)
         IN /\ Respond(auth, "POST /api/bugs", id, IF r.ok THEN 201 ELSE 500, 1, ~r.ok)
            /\ table' = r.table
            /\ srvFrame

\* POST /api/bugs; id is what crypto.randomUUID() returns
PostBugs(auth, body, id, out) ==
    IF ~authMiddleware(auth, now) THEN Unauthorized(auth, "POST /api/bugs", 0)
    ELSE IF ~Truthy(body.description) \/ body.description.t # "string"
    THEN /\ Respond(auth, "POST /api/bugs", 0, 400, 0, FALSE)
         /\ table' = table
         /\ srvFrame
    ELSE IF Truthy(body.label) /\ body.label \notin ALLOWED_LABELS
    THEN /\ Respond(auth, "POST /api/bugs", 0, 400, 0, FALSE)
         /\ table' = table
         /\ srvFrame
    ELSE LET r == createBug(table, newBug(body, id, now), out = 1)
         IN /\ Respond(auth, "POST /api/bugs", id, IF r.ok THEN 201 ELSE 500, 1, ~r.ok)
            /\ table' = r.table
            /\ srvFrame

\* GET /api/bugs/:id
GetBugById(auth, id, out) ==
    IF ~authMiddleware(auth, now) THEN Unauthorized(auth, "GET /api/bugs/:id", id)
    ELSE /\ Respond(auth, "GET /api/bugs/:id", id,
                    IF getBug(table, id, out = 1) # Null THEN 200 ELSE 404, 1, out = 1)
         /\ table' = table
         /\ srvFrame

\* A variant that takes jiraLink from the body alone: an omitted jiraLink is cleared.
updatedFromBody(body, existing) ==
    [ticket |-> Or(IF body.ticket.t = "string" THEN Str(Trim(body.ticket.s))
                   ELSE Or(existing.ticket, Str(<<>>)),
                   Null),
     description |-> IF Truthy(body.description) THEN Str(Trim(body.description.s))
                     ELSE existing.description,
     jiraLink |-> Or(body.jiraLink, Null),
     impact |-> IF body.impact # Undefined THEN ToNumber(body.impact) ELSE existing.impact,
     likelihood |-> IF body.likelihood # Undefined THEN ToNumber(body.likelihood)
                    ELSE existing.likelihood,
     label |-> IF body.label # Undefined THEN Or(body.label, Null) ELSE existing.label,
     reference |-> IF body.reference # Undefined THEN Bool(Truthy(body.reference))
                   ELSE Bool(Truthy(existing.reference)),
     completedAt |-> IF body.completedAt # Undefined THEN body.completedAt
                     ELSE existing.completedAt]

\* A variant that stamps the row with the time of the update.
updatedTouch(body, existing) ==
    [ticket |-> Or(IF body.ticket.t = "string" THEN Str(Trim(body.ticket.s))
                   ELSE Or(existing.ticket, Str(<<>>)),
                   Null),
     description |-> IF Truthy(body.description) THEN Str(Trim(body.description.s))
                     ELSE existing.description,
     jiraLink |-> IF body.jiraLink # Undefined THEN Or(body.jiraLink, Null)
                  ELSE existing.jiraLink,
     impact |-> IF body.impact # Undefined THEN ToNumber(body.impact) ELSE existing.impact,
     likelihood |-> IF body.likelihood # Undefined THEN ToNumber(body.likelihood)
                    ELSE existing.likelihood,
     label |-> IF body.label # Undefined THEN Or(body.label, Null) ELSE existing.label,
     reference |-> IF body.reference # Undefined THEN Bool(Truthy(body.reference))
                   ELSE Bool(Truthy(existing.reference)),
     completedAt |-> IF body.completedAt # Undefined THEN body.completedAt
                     ELSE existing.completedAt,
     createdAt |-> Num(now)]

\* The changes PUT /api/bugs/:id writes, from the request body and the row read.
updated(body, existing) ==
    [ticket |-> Or(IF body.ticket.t = "string" THEN Str(Trim(body.ticket.s))
                   ELSE Or(existing.ticket, Str(<<>>)),
                   Null),
     description |-> IF Truthy(body.description) THEN Str(Trim(body.description.s))
                     ELSE existing.description,
     jiraLink |-> IF body.jiraLink # Undefined THEN Or(body.jiraLink, Null)
                  ELSE existing.jiraLink,
     impact |-> IF body.impact # Undefined THEN ToNumber(body.impact) ELSE existing.impact,
     likelihood |-> IF body.likelihood # Undefined THEN ToNumber(body.likelihood)
                    ELSE existing.likelihood,
     label |-> IF body.label # Undefined THEN Or(body.label, Null) ELSE existing.label,
     reference |-> IF body.reference # Undefined THEN Bool(Truthy(body.reference))
                   ELSE Bool(Truthy(existing.reference)),
     completedAt |-> IF body.completedAt # Undefined THEN body.completedAt
                     ELSE existing.completedAt]

\* PUT /api/bugs/:id
PutBug(auth, id, body, out) ==
    IF ~authMiddleware(auth, now) THEN Unauthorized(auth, "PUT /api/bugs/:id", id)
    ELSE IF Truthy(body.label) /\ body.label \notin ALLOWED_LABELS
    THEN /\ Respond(auth, "PUT /api/bugs/:id", id, 400, 0, FALSE)
         /\ table' = table
         /\ srvFrame
    ELSE IF /\ body.completedAt # Undefined
            /\ body.completedAt # Null
            /\ body.completedAt.t \notin {"number", "NaN"}
    THEN /\ Respond(auth, "PUT /api/bugs/:id", id, 400, 0, FALSE)
         /\ table' = table
         /\ srvFrame
    ELSE LET existing == getBug(table, id, out = 1)
         IN IF existing = Null
            THEN /\ Respond(auth, "PUT /api/bugs/:id", id, 404, 1, out = 1)
                 /\ table' = table
                 /\ srvFrame
            ELSE LET r == updateBug(table, id, updated(body, existing), out = 2)
                 IN /\ Respond(auth, "PUT /api/bugs/:id", id, IF r.ok THEN 200 ELSE 500,
                               2, ~r.ok)
                    /\ table' = r.table
                    /\ srvFrame

\* POST /api/bugs/:id/complete
PostComplete(auth, id, out) ==
    IF ~authMiddleware(auth, now) THEN Unauthorized(auth, "POST /api/bugs/:id/complete", id)
    ELSE LET bug == getBug(table, id, out = 1)
         IN IF bug = Null
            THEN /\ Respond(auth, "POST /api/bugs/:id/complete", id, 404, 1, out = 1)
                 /\ table' = table
                 /\ srvFrame
            ELSE IF Truthy(bug.reference)
            THEN /\ Respond(auth, "POST /api/bugs/:id/complete", id, 403, 1, FALSE)
                 /\ table' = table
                 /\ srvFrame
            ELSE IF Truthy(bug.completedAt)
            THEN /\ Respond(auth, "POST /api/bugs/:id/complete", id, 409, 1, FALSE)
                 /\ table' = table
                 /\ srvFrame
            ELSE LET r == updateBug(table, id, [completedAt |-> Num(now)], out = 2)
                 IN /\ Respond(auth, "POST /api/bugs/:id/complete", id,
                               IF r.ok THEN 200 ELSE 500, 2, ~r.ok)
                    /\ table' = r.table
                    /\ srvFrame

\* DELETE /api/bugs/:id
DeleteBugById(auth, id, out) ==
    IF ~authMiddleware(auth, now) THEN Unauthorized(auth, "DELETE /api/bugs/:id", id)
    ELSE LET bug == getBug(table, id, out = 1)
         IN IF bug = Null
            THEN /\ Respond(auth, "DELETE /api/bugs/:id", id, 404, 1, out = 1)
                 /\ table' = table
                 /\ srvFrame
            ELSE IF Truthy(bug.reference)
            THEN /\ Respond(auth, "DELETE /api/bugs/:id", id, 403, 1, FALSE)
                 /\ table' = table
                 /\ srvFrame
            ELSE LET r == deleteBug(table, id, out = 2)
                 IN /\ Respond(auth, "DELETE /api/bugs/:id", id, IF r.ok THEN 204 ELSE 500,
                               2, ~r.ok)
                    /\ table' = r.table
                    /\ srvFrame

\* A variant with the test inverted: b => !b.reference
NotReference(b) == ~Truthy(b.reference)

IsReference(b) == Truthy(b.reference)

\* A variant of the bulk delete that refuses only a collection that holds a record.
DeleteAllBugsWhenAny(auth, out) ==
    IF ~authMiddleware(auth, now) THEN Unauthorized(auth, "DELETE /api/bugs", 0)
    ELSE LET all == listBugs(table, out = 1)
             preserved == SelectSeq(all, IsReference)
         IN IF Len(all) > 0 /\ Len(preserved) = Len(all)
            THEN /\ Respond(auth, "DELETE /api/bugs", 0, 403, 1, out = 1)
                 /\ table' = table
                 /\ srvFrame
            ELSE LET r == deleteAllNonReference(table, out = 2)
                 IN /\ resp' = Response(auth, "DELETE /api/bugs", 0, IF r.ok THEN 204 ELSE 500,
                                        2, ~r.ok, IF r.ok THEN Len(preserved) ELSE -1)
                    /\ table' = r.table
                    /\ srvFrame

\* DELETE /api/bugs
DeleteAllBugs(auth, out) ==
    IF ~authMiddleware(auth, now) THEN Unauthorized(auth, "DELETE /api/bugs", 0)
    ELSE LET all == listBugs(table, out = 1)
             preserved == SelectSeq(all, IsReference)
         IN IF Len(preserved) = Len(all)
            THEN /\ Respond(auth, "DELETE /api/bugs", 0, 403, 1, out = 1)
                 /\ table' = table
                 /\ srvFrame
            ELSE LET r == deleteAllNonReference(table, out = 2)
                 IN /\ resp' = Response(auth, "DELETE /api/bugs", 0, IF r.ok THEN 204 ELSE 500,
                                        2, ~r.ok, IF r.ok THEN Len(preserved) ELSE -1)
                    /\ table' = r.table
                    /\ srvFrame

-----------------------------------------------------------------------------
(* server.js: requests in progress.  A handler of PUT, complete or delete    *)
(* runs up to its await of getBug, and its continuation runs when the store  *)
(* has answered; the handlers of other requests run in between.  A slot      *)
(* holds one such request: what its handler captured, the row getBug         *)
(* returned, and the status it answered.                                     *)

MaxRequests == 2
Slots == 1..MaxRequests

Idle == [pc |-> "idle", route |-> "none", id |-> 0, body |-> Null, bug |-> Null, status |-> 0]

RaceRoutes == {"PUT /api/bugs/:id", "POST /api/bugs/:id/complete", "DELETE /api/bugs/:id"}

\* The handler up to `await getBug(id)`, for a request that passed the
\* middleware and, for PUT, the two checks of its body.
AwaitGetBug(slot, route, id, body) ==
    /\ requests[slot].pc # "await"
    /\ authMiddleware([scheme |-> "Bearer", tok |-> token], now)
    /\ route = "PUT /api/bugs/:id" =>
          /\ ~(Truthy(body.label) /\ body.label \notin ALLOWED_LABELS)
          /\ ~( /\ body.completedAt # Undefined
                /\ body.completedAt # Null
                /\ body.completedAt.t \notin {"number", "NaN"} )
    /\ requests' = [requests EXCEPT ![slot] =
                       [pc |-> "await", route |-> route, id |-> id, body |-> body,
                        bug |-> getBug(table, id, FALSE), status |-> 0]]
    /\ UNCHANGED <<now, table, EXPECT_USER, EXPECT_PASS, token, resp, appVars>>

\* What the continuation answers and the call it makes, from the row it read:
\* the status, and the outcome of the call (the table as it is when none is made).
Continue(q, t, at) ==
    LET none == Outcome(TRUE, t, Null)
        Ans(status, r) == [status |-> status, r |-> r]
    IN IF q.bug = Null THEN Ans(404, none)
       ELSE IF q.route = "PUT /api/bugs/:id"
       THEN LET r == updateBug(t, q.id, updated(q.body, q.bug), FALSE)
            IN Ans(IF r.ok THEN 200 ELSE 500, r)
       ELSE IF Truthy(q.bug.reference) THEN Ans(403, none)
       ELSE IF q.route = "POST /api/bugs/:id/complete"
       THEN IF Truthy(q.bug.completedAt) THEN Ans(409, none)
            ELSE LET r == updateBug(t, q.id, [completedAt |-> Num(at)], FALSE)
                 IN Ans(IF r.ok THEN 200 ELSE 500, r)
       ELSE LET r == deleteBug(t, q.id, FALSE)
            IN Ans(IF r.ok THEN 204 ELSE 500, r)

\* The handler from the answer of getBug on: its checks of the row it read,
\* its call of the store and its response.
AfterGetBug(slot) ==
    /\ requests[slot].pc = "await"
    /\ \E a \in {Continue(requests[slot], table, now)} :
          /\ table' = a.r.table
          /\ requests' = [requests EXCEPT ![slot].pc = "done", ![slot].status = a.status,
                                          ![slot].body = Null, ![slot].bug = Null]
          /\ resp' = Response([scheme |-> "Bearer", tok |-> token], requests[slot].route,
                              requests[slot].id, a.status,
                              IF a.status \in {404, 403, 409} THEN 1 ELSE 2, ~a.r.ok, -1)
    /\ UNCHANGED <<now, EXPECT_USER, EXPECT_PASS, token, appVars>>

-----------------------------------------------------------------------------
(* part_000 (App) and supabaseClient.ts: the client.  It queries the table   *)
(* itself: a handler runs up to its await, the store takes the request when  *)
(* it is sent, and the response waits in inflight until the handler's        *)
(* continuation runs.  Column names of the two programs are identified       *)
(* (jira_link / jiraLink, completed_at / completedAt, created_at / createdAt).*)
(* The loading flag (a busy indicator that disables only the manual reload   *)
(* button) and the create form's fields are left out: form fields are given  *)
(* as the handler's inputs.                                                  *)

\* A variant of riskCategory with strict comparisons.
riskCategoryStrict(score) ==
    IF score < 4 THEN "Laag"
    ELSE IF score < 8 THEN "Gemiddeld"
    ELSE IF score < 12 THEN "Hoog"
    ELSE "Kritiek"

\* riskCategory and cellColor
riskCategory(score) ==
    IF score <= 4 THEN "Laag"
    ELSE IF score <= 8 THEN "Gemiddeld"
    ELSE IF score <= 12 THEN "Hoog"
    ELSE "Kritiek"

cellColor(score) ==
    IF score <= 4 THEN "#d1fae5"
    ELSE IF score <= 8 THEN "#fef9c3"
    ELSE IF score <= 12 THEN "#ffedd5"
    ELSE "#fee2e2"

\* const score = b.impact * b.likelihood, of a record of the table view
riskScore(b) == b.impact.n * b.likelihood.n

mapRowToBug(r) ==
    [id |-> r.id,
     ticket |-> Or(r.ticket, Undefined),
     description |-> r.description,
     jiraLink |-> Or(r.jiraLink, Undefined),
     impact |-> r.impact,
     likelihood |-> r.likelihood,
     label |-> Or(r.label, Undefined),
     completedAt |-> r.completedAt,
     createdAt |-> r.createdAt,
     reference |-> r.reference]

\* data.map(mapRowToBug)
MapRows(rows) == [i \in DOMAIN rows |-> mapRowToBug(rows[i])]

\* localStorage with both keys removed
NoSession == [bugauth_user |-> Null, bugauth_ts |-> Null]

\* A response the client awaits: the request's kind, the id and selectedId its
\* handler captured, whether the store answered without an error, and the rows
\* it returned.
Pending(kind, id, sel, ok, rows) ==
    [kind |-> kind, id |-> id, sel |-> sel, ok |-> ok, rows |-> rows]

\* Number(localStorage.getItem('bugauth_ts')) || 0
StoredTs(ls) == Or(ToNumber(ls.bugauth_ts), Num(0)).n

\* A variant of the auto-logout effect that arms no timeout.
AutoLogoutUnarmed(user, ls, ts, at) ==
    IF ~Truthy(user) THEN [authUser |-> user, localStorage |-> ls, timer |-> 0]
    ELSE IF SESSION_MS - (at - ts) <= 0
    THEN [authUser |-> Null, localStorage |-> NoSession, timer |-> 0]
    ELSE [authUser |-> user, localStorage |-> ls, timer |-> 0]

\* The auto-logout effect (on [authUser]) for a render with the given user and
\* localStorage: what it leaves of them, and the timeout it arms.
AutoLogoutAt(user, ls, ts, at) ==
    IF ~Truthy(user) THEN [authUser |-> user, localStorage |-> ls, timer |-> 0]
    ELSE IF SESSION_MS - (at - ts) <= 0
    THEN [authUser |-> Null, localStorage |-> NoSession, timer |-> 0]
    ELSE [authUser |-> user, localStorage |-> ls, timer |-> at + (SESSION_MS - (at - ts))]

AutoLogout(user, ls, at) == AutoLogoutAt(user, ls, StoredTs(ls), at)

\* The initial value of authUser, and the localStorage it leaves.
InitialAuthAt(ls, ts, at) ==
    IF \/ ~Truthy(ls.bugauth_user)
       \/ ts = 0
       \/ at - ts > SESSION_MS
    THEN [authUser |-> Null, localStorage |-> NoSession]
    ELSE [authUser |-> ls.bugauth_user, localStorage |-> ls]

InitialAuth(ls, at) == InitialAuthAt(ls, StoredTs(ls), at)

\* reload() of a render whose supabase state is has: the responses it adds
reload(has, down) ==
    IF ~has THEN {}
    ELSE {Pending("select", 0, 0, Select(table, down).ok, Select(table, down).data)}

Room(more) == Cardinality(inflight \cup more) <= MaxInflight

\* handleLogin: the login form is what an anonymous user gets.  On a match the
\* handler calls reload() with the supabase of the render it was created in,
\* and the effects of the next render arm the timeout and load the records.
handleLogin(loginUser, loginPass, down) ==
    /\ authUser = Null
    /\ IF ~Truthy(APP_USER) \/ ~Truthy(APP_PASS)
       THEN /\ loginError' = Str(<<"Auth niet geconfigureerd">>)
            /\ UNCHANGED <<localStorage, client, supabase, authUser, timer, inflight>>
       ELSE IF loginUser = APP_USER /\ loginPass = APP_PASS
       THEN \E after \in {AutoLogout(loginUser,
                                       [bugauth_user |-> loginUser,
                                        bugauth_ts |-> Str(DigitsOf(now))], now)} :
            LET sent == reload(supabase, down)
                        \cup (IF Truthy(after.authUser) THEN reload(TRUE, down) ELSE {})
            IN /\ Room(sent)
               /\ localStorage' = after.localStorage
               /\ authUser' = after.authUser
               /\ timer' = after.timer
               /\ loginError' = Null
               /\ client' = TRUE
               /\ supabase' = TRUE
               /\ inflight' = inflight \cup sent
       ELSE /\ loginError' = Str(<<"Ongeldige inlog">>)
            /\ UNCHANGED <<localStorage, client, supabase, authUser, timer, inflight>>
    /\ UNCHANGED <<now, table, srvVars, APP_USER, APP_PASS, error, editError, bugs,
                   selectedId, editLoading, viewTab, labelFilters, sortField, sortDir, writes>>

\* What handleLogout changes (the [authUser] effect's cleanup clears the timeout).
LoggedOut ==
    /\ localStorage' = NoSession
    /\ authUser' = Null
    /\ timer' = 0
    /\ UNCHANGED <<now, table, srvVars, APP_USER, APP_PASS, client, supabase, loginError,
                   error, editError, bugs, selectedId, editLoading, viewTab, labelFilters, sortField, sortDir, inflight,
                   writes>>

\* handleLogout, from the "Uitloggen" button
handleLogout ==
    /\ authUser # Null
    /\ LoggedOut

\* The timeout armed by the auto-logout effect fires: not before its deadline.
TimerFires ==
    /\ timer # 0
    /\ now >= timer
    /\ LoggedOut

\* The page is loaded again: module and component state start over, localStorage
\* stays, and responses to the old page are lost.
PageLoad ==
    \E first \in {InitialAuth(localStorage, now)} :
    \E after \in {AutoLogout(first.authUser, first.localStorage, now)} :
       /\ client' = FALSE
       /\ supabase' = FALSE
       /\ authUser' = after.authUser
       /\ localStorage' = after.localStorage
       /\ timer' = after.timer
       /\ loginError' = Null
       /\ error' = Null
       /\ editError' = Null
       /\ bugs' = <<>>
       /\ selectedId' = 0
       /\ editLoading' = FALSE
       /\ viewTab' = "open"
       /\ labelFilters' = <<>>
       /\ sortField' = "none"
       /\ sortDir' = "asc"
       /\ inflight' = (IF Truthy(after.authUser) THEN reload(FALSE, FALSE) ELSE {})
       /\ UNCHANGED <<now, table, srvVars, APP_USER, APP_PASS, writes>>

\* A variant of the refresh that renews the session's start (a sliding session).
RefreshRenewing(down) ==
    /\ Truthy(authUser)
    /\ Room(reload(supabase, down))
    /\ inflight' = inflight \cup reload(supabase, down)
    /\ error' = (IF supabase THEN Null ELSE error)
    /\ localStorage' = [localStorage EXCEPT !.bugauth_ts = Str(DigitsOf(now))]
    /\ UNCHANGED <<now, table, srvVars, APP_USER, APP_PASS, client, supabase,
                   authUser, loginError, editError, bugs, selectedId, editLoading,
                   viewTab, labelFilters, sortField, sortDir, timer, writes>>

\* The initial-load effect has run on login; the periodic refresh (setInterval)
\* and the reload button call reload() while the user is logged in.
Refresh(down) ==
    /\ Truthy(authUser)
    /\ Room(reload(supabase, down))
    /\ inflight' = inflight \cup reload(supabase, down)
    /\ error' = (IF supabase THEN Null ELSE error)
    /\ UNCHANGED <<now, table, srvVars, APP_USER, APP_PASS, localStorage, client, supabase,
                   authUser, loginError, editError, bugs, selectedId, editLoading,
                   viewTab, labelFilters, sortField, sortDir, timer, writes>>

\* What a handler leaves alone when it only sets error (or returns at once).
appFrame ==
    UNCHANGED <<now, srvVars, APP_USER, APP_PASS, localStorage, client, supabase,
                authUser, loginError, bugs, selectedId, viewTab, labelFilters, sortField, sortDir, timer>>

\* A handler refuses: error (or editError) is set and nothing is sent.
Refuse(message) ==
    /\ error' = message
    /\ UNCHANGED <<table, inflight, editError, editLoading, writes>>
    /\ appFrame

\* The row addBug inserts, from the form; id is what genId() returns.
newRow(form, id, at) ==
    [id |-> id,
     ticket |-> Or(Str(Trim(form.ticket.s)), Null),
     description |-> Str(Trim(form.description.s)),
     jiraLink |-> Or(Str(Trim(form.jiraLink.s)), Null),
     impact |-> form.impact,
     likelihood |-> form.likelihood,
     label |-> Or(Str(Trim(form.label.s)), Null),
     completedAt |-> Null,
     createdAt |-> Num(at),
     reference |-> form.reference]

\* addBug, from the create form of the page a logged-in user gets
addBug(form, id, down) ==
    /\ Truthy(authUser)
    /\ IF Trim(form.description.s) = <<>>
       THEN /\ UNCHANGED <<table, inflight, error, editError, editLoading, writes>>
            /\ appFrame
       ELSE IF ~supabase THEN Refuse(Str(<<"Niet ingelogd">>))
       ELSE LET r == Insert(table, newRow(form, id, now), down)
                p == Pending("insert", id, 0, r.ok, IF r.ok THEN <<r.data>> ELSE <<>>)
            IN /\ Room({p})
               /\ writes < MaxWrites
               /\ writes' = writes + 1
               /\ table' = r.table
               /\ inflight' = inflight \cup {p}
               /\ error' = Null
               /\ UNCHANGED <<editError, editLoading>>
               /\ appFrame

\* clearAll, from the "Alles wissen" button; confirmed is window.confirm's answer
clearAll(confirmed, down) ==
    /\ Truthy(authUser)
    /\ IF ~supabase THEN Refuse(Str(<<"Niet ingelogd">>))
       ELSE IF ~confirmed
       THEN /\ UNCHANGED <<table, inflight, error, editError, editLoading, writes>>
            /\ appFrame
       ELSE LET r == DeleteWhereNotReference(table, down)
                p == Pending("clear", 0, 0, r.ok, <<>>)
            IN /\ Room({p})
               /\ writes < MaxWrites
               /\ writes' = writes + 1
               /\ table' = r.table
               /\ inflight' = inflight \cup {p}
               /\ error' = Null
               /\ UNCHANGED <<editError, editLoading>>
               /\ appFrame

\* The records of the cache with the given id.
Cached(id) == {i \in DOMAIN bugs : bugs[i].id = id}
\* bugs.find(b => b.id === id)
Find(id) == bugs[CHOOSE i \in Cached(id) : \A j \in Cached(id) : i <= j]

\* displayedBugs: the filter's two tests, and the records that pass them
statusOk(b, tab) == IF tab = "open" THEN ~Truthy(b.completedAt) ELSE Truthy(b.completedAt)

\* A variant of the label test that lets every record pass.
labelOkAlways(b, filters) == TRUE

labelOk(b, filters) ==
    \/ Len(filters) = 0
    \/ Truthy(b.label) /\ \E i \in DOMAIN filters : filters[i] = b.label

displayedBugsOf(list, tab, filters) ==
    SelectSeq(list, LAMBDA b : statusOk(b, tab) /\ labelOk(b, filters))

displayedBugs == displayedBugsOf(bugs, viewTab, labelFilters)

\* The record is in the displayed list.
Displayed(b) == statusOk(b, viewTab) /\ labelOk(b, labelFilters)

\* A variant of markCompleted that marks the cached record when it sends.
markCompletedOptimistic(id, down) ==
    /\ Truthy(authUser)
    /\ \E i \in Cached(id) :
          /\ Displayed(bugs[i])
          /\ viewTab = "open" /\ ~Truthy(bugs[i].completedAt) /\ ~Truthy(bugs[i].reference)
    /\ supabase
    /\ LET r == Update(table, id, [completedAt |-> Num(now)], down)
           p == Pending("complete", id, 0, r.ok, IF r.ok THEN <<r.data>> ELSE <<>>)
       IN /\ Room({p})
          /\ writes < MaxWrites
          /\ writes' = writes + 1
          /\ table' = r.table
          /\ inflight' = inflight \cup {p}
          /\ error' = Null
          /\ bugs' = [i \in DOMAIN bugs |->
                        IF bugs[i].id = id THEN [bugs[i] EXCEPT !.completedAt = Num(now)]
                        ELSE bugs[i]]
          /\ UNCHANGED <<editError, editLoading>>
          /\ UNCHANGED <<now, srvVars, APP_USER, APP_PASS, localStorage, client, supabase,
                         authUser, loginError, selectedId, viewTab, labelFilters, sortField, sortDir, timer>>

\* markCompleted, from the "Afronden" button: rendered for a displayed record
\* when viewTab === 'open' && !b.completedAt && !b.reference
markCompleted(id, down) ==
    /\ Truthy(authUser)
    /\ \E i \in Cached(id) :
          /\ Displayed(bugs[i])
          /\ viewTab = "open" /\ ~Truthy(bugs[i].completedAt) /\ ~Truthy(bugs[i].reference)
    /\ IF ~supabase THEN Refuse(Str(<<"Niet ingelogd">>))
       ELSE LET r == Update(table, id, [completedAt |-> Num(now)], down)
                p == Pending("complete", id, 0, r.ok, IF r.ok THEN <<r.data>> ELSE <<>>)
            IN /\ Room({p})
               /\ writes < MaxWrites
               /\ writes' = writes + 1
               /\ table' = r.table
               /\ inflight' = inflight \cup {p}
               /\ error' = Null
               /\ UNCHANGED <<editError, editLoading>>
               /\ appFrame

\* deleteBug of App, from the "Verwijder" button: rendered for a displayed
\* record when !b.reference; confirmed is window.confirm's answer
App_deleteBug(id, confirmed, down) ==
    /\ Truthy(authUser)
    /\ \E i \in Cached(id) : Displayed(bugs[i]) /\ ~Truthy(bugs[i].reference)
    /\ IF ~supabase THEN Refuse(Str(<<"Niet ingelogd">>))
       ELSE IF Truthy(Find(id).reference) \/ ~confirmed
       THEN /\ UNCHANGED <<table, inflight, error, editError, editLoading, writes>>
            /\ appFrame
       ELSE LET r == Delete(table, id, down)
                p == Pending("delete", id, selectedId, r.ok, <<>>)
            IN /\ Room({p})
               /\ writes < MaxWrites
               /\ writes' = writes + 1
               /\ table' = r.table
               /\ inflight' = inflight \cup {p}
               /\ error' = Null
               /\ UNCHANGED <<editError, editLoading>>
               /\ appFrame

\* The changes updateBug of App writes, from the edit form.
changes(form) ==
    [ticket |-> Or(Str(Trim(form.ticket.s)), Null),
     description |-> Str(Trim(form.description.s)),
     jiraLink |-> Or(Str(Trim(form.jiraLink.s)), Null),
     impact |-> form.impact,
     likelihood |-> form.likelihood,
     label |-> Or(Str(Trim(form.label.s)), Null),
     reference |-> form.reference]

\* updateBug of App: the edit form is rendered while selectedId is set, its
\* submit button is disabled while editLoading
App_updateBug(form, down) ==
    /\ Truthy(authUser)
    /\ selectedId # 0
    /\ ~editLoading
    /\ IF Trim(form.description.s) = <<>>
       THEN /\ editError' = Str(<<"Omschrijving verplicht">>)
            /\ UNCHANGED <<table, inflight, error, editLoading, writes>>
            /\ appFrame
       ELSE IF ~supabase
       THEN /\ editError' = Str(<<"Niet ingelogd">>)
            /\ UNCHANGED <<table, inflight, error, editLoading, writes>>
            /\ appFrame
       ELSE LET r == Update(table, selectedId, changes(form), down)
                p == Pending("update", selectedId, selectedId, r.ok,
                             IF r.ok THEN <<r.data>> ELSE <<>>)
            IN /\ Room({p})
               /\ writes < MaxWrites
               /\ writes' = writes + 1
               /\ table' = r.table
               /\ inflight' = inflight \cup {p}
               /\ editLoading' = TRUE
               /\ editError' = Null
               /\ UNCHANGED error
               /\ appFrame

\* What a click that only changes the view leaves alone.
viewFrame ==
    UNCHANGED <<now, table, srvVars, APP_USER, APP_PASS, localStorage, client, supabase,
                authUser, loginError, error, bugs, editLoading, labelFilters, sortField, sortDir, timer,
                inflight, writes>>

\* setSelectedId(b.id), from a displayed record's row or marker; the effect on
\* [selectedId, bugs] clears editError when nothing is selected
Select_(id) ==
    /\ Truthy(authUser)
    /\ \E i \in Cached(id) : Displayed(bugs[i])
    /\ selectedId' = id
    /\ UNCHANGED <<viewTab, editError>>
    /\ viewFrame

\* cancelEdit
cancelEdit ==
    /\ Truthy(authUser)
    /\ selectedId # 0
    /\ ~editLoading
    /\ selectedId' = 0
    /\ editError' = Null
    /\ UNCHANGED viewTab
    /\ viewFrame

\* setViewTab, from the two tabs
setViewTab(tab) ==
    /\ Truthy(authUser)
    /\ viewTab # tab
    /\ viewTab' = tab
    /\ UNCHANGED <<selectedId, editError>>
    /\ viewFrame

\* toggleLabelFilter, from the filter's label buttons
toggleLabelFilter(l) ==
    /\ Truthy(authUser)
    /\ labelFilters' =
          IF \E i \in DOMAIN labelFilters : labelFilters[i] = l
          THEN SelectSeq(labelFilters, LAMBDA x : x # l)
          ELSE Append(labelFilters, l)
    /\ UNCHANGED <<now, table, srvVars, APP_USER, APP_PASS, localStorage, client, supabase,
                   authUser, loginError, error, editError, bugs, selectedId, editLoading,
                   viewTab, sortField, sortDir, timer, inflight, writes>>

\* resetLabelFilters, from the filter's reset button
resetLabelFilters ==
    /\ Truthy(authUser)
    /\ labelFilters' = <<>>
    /\ UNCHANGED <<now, table, srvVars, APP_USER, APP_PASS, localStorage, client, supabase,
                   authUser, loginError, error, editError, bugs, selectedId, editLoading,
                   viewTab, sortField, sortDir, timer, inflight, writes>>

\* A variant of the comparator that ignores the direction.
compareAscending(a, b, dir) == riskScore(a) - riskScore(b)

\* The comparator of sortedBugs: negative when a goes before b.
compare(a, b, dir) ==
    IF dir = "asc" THEN riskScore(a) - riskScore(b) ELSE riskScore(b) - riskScore(a)

\* Array.prototype.sort with the comparator: a stable sort (ECMAScript 2019),
\* each element going behind those that do not compare greater than it.
RECURSIVE sort(_, _)
sort(arr, dir) ==
    IF arr = <<>> THEN <<>>
    ELSE LET head == sort(SubSeq(arr, 1, Len(arr) - 1), dir)
             e == arr[Len(arr)]
             k == Cardinality({i \in DOMAIN head : compare(head[i], e, dir) <= 0})
         IN SubSeq(head, 1, k) \o <<e>> \o SubSeq(head, k + 1, Len(head))

\* sortedBugs, the rows of the table view
sortedBugsOf(list, field, dir) == IF field = "score" THEN sort(list, dir) ELSE list

sortedBugs == sortedBugsOf(displayedBugs, sortField, sortDir)

\* setSortField, from the "Sorteren op" select
setSortField(field) ==
    /\ Truthy(authUser)
    /\ sortField # field
    /\ sortField' = field
    /\ UNCHANGED <<now, table, srvVars, APP_USER, APP_PASS, localStorage, client, supabase,
                   authUser, loginError, error, editError, bugs, selectedId, editLoading,
                   viewTab, labelFilters, sortDir, timer, inflight, writes>>

\* setSortDir, from the "Richting" button: it flips the direction
toggleSortDir ==
    /\ Truthy(authUser)
    /\ sortDir' = (IF sortDir = "asc" THEN "desc" ELSE "asc")
    /\ UNCHANGED <<now, table, srvVars, APP_USER, APP_PASS, localStorage, client, supabase,
                   authUser, loginError, error, editError, bugs, selectedId, editLoading,
                   viewTab, labelFilters, sortField, timer, inflight, writes>>

\* prev.map(b => b.id === id ? bug : b)
Replace(prev, id, bug) == [i \in DOMAIN prev |-> IF prev[i].id = id THEN bug ELSE prev[i]]

KeepReference(b) == Truthy(b.reference)

\* The continuation of a handler runs with the response p: the part of the
\* handler after its await.  selectedId is cleared by clearAll, and by deleteBug
\* when the handler's own selectedId was the deleted id; with nothing selected
\* the [selectedId, bugs] effect clears editError.
Deliver(p) ==
    /\ p \in inflight
    /\ inflight' = inflight \ {p}
    /\ bugs' =
        IF ~p.ok THEN bugs
        ELSE CASE p.kind = "select" -> MapRows(p.rows)
               [] p.kind = "insert" ->
                    IF p.rows # <<>> THEN Append(bugs, mapRowToBug(p.rows[1])) ELSE bugs
               [] p.kind = "clear" -> SelectSeq(bugs, KeepReference)
               [] p.kind = "complete" ->
                    IF p.rows # <<>> THEN Replace(bugs, p.id, mapRowToBug(p.rows[1]))
                    ELSE bugs
               [] p.kind = "delete" -> SelectSeq(bugs, LAMBDA b : b.id # p.id)
               [] p.kind = "update" ->
                    IF p.rows # <<>> THEN Replace(bugs, p.sel, mapRowToBug(p.rows[1]))
                    ELSE bugs
    /\ selectedId' =
        IF p.ok /\ (p.kind = "clear" \/ (p.kind = "delete" /\ p.sel = p.id))
        THEN 0 ELSE selectedId
    /\ error' =
        IF p.ok \/ p.kind = "update" THEN error
        ELSE CASE p.kind = "select" -> Str(<<"Kon bugs niet laden">>)
               [] p.kind = "insert" -> Str(<<"Kon bug niet toevoegen">>)
               [] p.kind = "clear" -> Str(<<"Kon bugs niet wissen">>)
               [] p.kind = "complete" -> Str(<<"Fout bij afronden">>)
               [] p.kind = "delete" -> Str(<<"Kon bug niet verwijderen">>)
    /\ editError' =
        IF p.kind = "update" /\ ~p.ok THEN Str(<<"Fout bij bijwerken">>)
        ELSE IF selectedId' = 0 THEN Null ELSE editError
    /\ editLoading' = (IF p.kind = "update" THEN FALSE ELSE editLoading)
    /\ UNCHANGED <<now, table, srvVars, APP_USER, APP_PASS, localStorage, client, supabase,
                   authUser, loginError, viewTab, labelFilters, sortField, sortDir, timer, writes>>

-----------------------------------------------------------------------------
(* Inputs *)

Admin == Str(<<"admin">>)
Secret == Str(<<"geheim">>)

\* What a login request or the login form can carry.
LoginValues == {Undefined, Admin, Secret}

\* The environments: credentials configured, none configured, no password.
Environments == {<<Admin, Secret>>, <<Undefined, Undefined>>, <<Admin, Undefined>>}

Outs == 0..2

\* A request body; an absent field is undefined.
Body(description, reference, completedAt) ==
    [ticket |-> Undefined, description |-> description, jiraLink |-> Undefined,
     impact |-> Num(3), likelihood |-> Undefined, label |-> Undefined,
     reference |-> reference, completedAt |-> completedAt]

CreateBodies ==
    {Body(Str(<<"fix X">>), r, Undefined) : r \in {Undefined, Bool(TRUE)}}

PutBodies ==
    {Body(Undefined, r, Undefined) : r \in {Undefined, Bool(TRUE), Bool(FALSE)}}
    \cup {Body(Undefined, Undefined, c) : c \in {Null, Num(T0), Str(<<"x">>)}}

\* What the create form holds when it is submitted.
Form(description, reference) ==
    [ticket |-> Str(<<>>), description |-> description, jiraLink |-> Str(<<>>),
     impact |-> Num(3), likelihood |-> Num(3), label |-> Str(<<>>),
     reference |-> Bool(reference)]

CreateForms == {Form(Str(<<" ", "fix X">>), r) : r \in BOOLEAN}

\* What the edit form holds when it is submitted: the selected record as the
\* effect on [selectedId, bugs] loaded it, with the reference box as the user set it.
EditForms ==
    IF Cached(selectedId) = {} THEN {}
    ELSE {[ticket |-> Or(Find(selectedId).ticket, Str(<<>>)),
           description |-> Find(selectedId).description,
           jiraLink |-> Or(Find(selectedId).jiraLink, Str(<<>>)),
           impact |-> Find(selectedId).impact,
           likelihood |-> Find(selectedId).likelihood,
           label |-> Or(Find(selectedId).label, Str(<<>>)),
           reference |-> Bool(r)] : r \in BOOLEAN}

-----------------------------------------------------------------------------
(* Specifications *)

InitStore ==
    /\ now = T0
    /\ table = {}

InitServer(env) ==
    /\ EXPECT_USER = env[1]
    /\ EXPECT_PASS = env[2]
    /\ token = Sign(env[1], T0 - JWT_MS)
    /\ resp = [auth |-> NoHeader, route |-> "none", id |-> 0, status |-> 0, calls |-> 0,
               failed |-> FALSE, preserved |-> -1]
    /\ requests = [s \in Slots |-> Idle]

InitApp(env) ==
    /\ APP_USER = env[1]
    /\ APP_PASS = env[2]
    /\ localStorage = NoSession
    /\ client = FALSE
    /\ supabase = FALSE
    /\ authUser = Null
    /\ loginError = Null
    /\ error = Null
    /\ editError = Null
    /\ bugs = <<>>
    /\ selectedId = 0
    /\ editLoading = FALSE
    /\ viewTab = "open"
    /\ labelFilters = <<>>
    /\ sortField = "none"
    /\ sortDir = "asc"
    /\ timer = 0
    /\ inflight = {}
    /\ writes = 0

\* The backend with its credentials configured; the caller holds the token of
\* a login of eight hours ago.
Init == InitStore /\ InitServer(<<Admin, Secret>>) /\ InitApp(<<Admin, Secret>>)

Routes ==
    \/ \E a \in AuthHeaders(token), out \in Outs : GetBugs(a, out)
    \/ \E a \in AuthHeaders(token), b \in CreateBodies, id \in Ids, out \in Outs :
          PostBugs(a, b, id, out)
    \/ \E a \in AuthHeaders(token), id \in Ids, out \in Outs : GetBugById(a, id, out)
    \/ \E a \in AuthHeaders(token), id \in Ids, b \in PutBodies, out \in Outs :
          PutBug(a, id, b, out)
    \/ \E a \in AuthHeaders(token), id \in Ids, out \in Outs : PostComplete(a, id, out)
    \/ \E a \in AuthHeaders(token), id \in Ids, out \in Outs : DeleteBugById(a, id, out)
    \/ \E a \in AuthHeaders(token), out \in Outs : DeleteAllBugs(a, out)

Next ==
    \/ Tick(Early)
    \/ \E u \in LoginValues, p \in LoginValues : PostLogin(u, p)
    \/ Routes

Spec == Init /\ [][Next]_vars

\* The client over the first instants: its handlers, two records, the store
\* answering or failing.
NextApp ==
    \/ Tick(Early)
    \/ handleLogin(Admin, Secret, FALSE)
    \/ Refresh(FALSE)
    \/ \E f \in CreateForms, id \in Ids : addBug(f, id, FALSE)
    \/ clearAll(TRUE, FALSE)
    \/ \E id \in Ids : markCompleted(id, FALSE)
    \/ \E id \in Ids : App_deleteBug(id, TRUE, FALSE)
    \/ \E f \in EditForms : App_updateBug(f, FALSE)
    \/ \E id \in Ids : Select_(id)
    \/ cancelEdit
    \/ \E tab \in {"open", "completed"} : setViewTab(tab)
    \/ \E p \in inflight : Deliver(p)

SpecApp == Init /\ [][NextApp]_vars

\* The client's session over the instants around its end: one record.
NextSession ==
    \/ Tick(Instants(SESSION_MS))
    \/ \E p \in {Secret, Admin} : handleLogin(Admin, p, FALSE)
    \/ handleLogout
    \/ TimerFires
    \/ PageLoad
    \/ Refresh(FALSE)
    \/ addBug(Form(Str(<<" ", "fix X">>), FALSE), 1, FALSE)
    \/ clearAll(TRUE, FALSE)
    \/ markCompleted(1, FALSE)
    \/ App_deleteBug(1, TRUE, FALSE)
    \/ \E f \in EditForms : App_updateBug(f, FALSE)
    \/ Select_(1)
    \/ \E p \in inflight : Deliver(p)

SpecSession == Init /\ [][NextSession]_vars

\* Login in every environment, at the backend and in the client.
InitLogin ==
    /\ InitStore
    /\ \E env \in Environments : InitServer(env)
    /\ \E env \in Environments : InitApp(env)

NextLogin ==
    \/ Tick(Early)
    \/ \E u \in LoginValues, p \in LoginValues : PostLogin(u, p)
    \/ \E a \in AuthHeaders(token) : GetBugs(a, 0)
    \/ \E u \in LoginValues \ {Undefined}, p \in LoginValues \ {Undefined} :
          handleLogin(u, p, FALSE)
    \/ handleLogout
    \/ Refresh(FALSE)
    \/ \E p \in inflight : Deliver(p)

SpecLogin == InitLogin /\ [][NextLogin]_vars

\* A request body with no field.
NoFields ==
    [ticket |-> Undefined, description |-> Undefined, jiraLink |-> Undefined,
     impact |-> Undefined, likelihood |-> Undefined, label |-> Undefined,
     reference |-> Undefined, completedAt |-> Undefined]

\* Bodies of POST /api/bugs: descriptions absent, blank and padded; labels in
\* and out of the list; impacts absent, numeric, out of range and non-numeric;
\* and a body with every field.
EditCreateBodies ==
    {[NoFields EXCEPT !.description = d] :
        d \in {Undefined, Str(<<" ">>), Str(<<" ", "fix X", " ">>)}}
    \cup {[NoFields EXCEPT !.description = Str(<<"fix X">>), !.label = l] :
            l \in {Str(<<"TSO">>), Str(<<"Not A Real Label">>)}}
    \cup {[NoFields EXCEPT !.description = Str(<<"fix X">>), !.impact = i] :
            i \in {Num(7), Str(<<"abc">>), Str(<<"4">>)}}
    \cup {[ticket |-> Str(<<" ", "T-1">>), description |-> Str(<<"fix Y">>),
           jiraLink |-> Str(<<"https://jira/T-1">>), impact |-> Num(5),
           likelihood |-> Num(2), label |-> Str(<<"TSO">>), reference |-> Bool(TRUE),
           completedAt |-> Undefined]}

\* Bodies of PUT /api/bugs/:id: no field, or one field.
EditPutBodies ==
    {NoFields}
    \cup {[NoFields EXCEPT !.ticket = Str(<<"T-2">>)],
          [NoFields EXCEPT !.description = Str(<<"fix Z", " ">>)],
          [NoFields EXCEPT !.jiraLink = Null],
          [NoFields EXCEPT !.impact = Str(<<"abc">>)],
          [NoFields EXCEPT !.likelihood = Num(4)],
          [NoFields EXCEPT !.label = Str(<<"Not A Real Label">>)],
          [NoFields EXCEPT !.label = Str(<<>>)],
          [NoFields EXCEPT !.reference = Bool(FALSE)],
          [NoFields EXCEPT !.completedAt = Num(T0)]}

\* The header of a caller that sends the token it holds.
Held == [scheme |-> "Bearer", tok |-> token]

\* The backend's create, update, complete and delete for a caller that logs in,
\* the store answering: the fields of the request bodies vary.
NextEdit ==
    \/ Tick(Early)
    \/ PostLogin(Admin, Secret)
    \/ \E b \in EditCreateBodies : PostBugs(Held, b, 1, 0)
    \/ \E id \in Ids, b \in EditPutBodies : PutBug(Held, id, b, 0)
    \/ PostComplete(Held, 1, 0)
    \/ DeleteBugById(Held, 1, 0)

SpecEdit == Init /\ [][NextEdit]_vars

\* Bodies of POST /api/bugs that differ in the reference flag and in a
\* completedAt the caller adds: the flag absent, null, a boolean, and the
\* string "false".
FlagBodies ==
    {[NoFields EXCEPT !.description = Str(<<"fix X">>), !.reference = r, !.completedAt = c] :
        r \in {Undefined, Null, Bool(TRUE), Bool(FALSE), Str(<<"false">>)},
        c \in {Undefined, Num(T0)}}

\* Creates by the backend and by the client on one table, the ids drawn from
\* Ids whether or not a row holds them, with deletes in between.
NextCreate ==
    \/ PostLogin(Admin, Secret)
    \/ \E b \in FlagBodies, id \in Ids : PostBugs(Held, b, id, 0)
    \/ \E id \in Ids : DeleteBugById(Held, id, 0)
    \/ handleLogin(Admin, Secret, FALSE)
    \/ \E f \in CreateForms, id \in Ids : addBug(f, id, FALSE)
    \/ \E p \in inflight : Deliver(p)

SpecCreate == Init /\ [][NextCreate]_vars

\* The create form with three pairs of impact and likelihood, two of them of
\* the same score.
SortForms ==
    {[Form(Str(<<"fix X">>), FALSE) EXCEPT !.impact = Num(f[1]), !.likelihood = Num(f[2])] :
        f \in {<<2, 3>>, <<3, 2>>, <<1, 5>>}}

\* The ids genId() returns in the sorted view's runs.
SortIds == 1..(MaxId + 1)

\* The client's sorted view: up to three records, completed or open, the tabs
\* and the two sort controls.
NextSort ==
    \/ handleLogin(Admin, Secret, FALSE)
    \/ \E f \in SortForms, id \in SortIds : addBug(f, id, FALSE)
    \/ \E tab \in {"open", "completed"} : setViewTab(tab)
    \/ \E field \in {"none", "score"} : setSortField(field)
    \/ toggleSortDir
    \/ \E p \in inflight : Deliver(p)

SpecSort == Init /\ [][NextSort]_vars

\* The client's session left to itself: logins in the first instants, page
\* loads, requests and their responses, the clock and the timeout, and no
\* logout by the user.
NextAuto ==
    \/ Tick(Instants(SESSION_MS))
    \/ now \in Early /\ \E p \in {Secret, Admin} : handleLogin(Admin, p, FALSE)
    \/ TimerFires
    \/ PageLoad
    \/ Refresh(FALSE)
    \/ addBug(Form(Str(<<" ", "fix X">>), FALSE), 1, FALSE)
    \/ \E p \in inflight : Deliver(p)

\* Time passes, and a timeout that is due runs its callback.
SpecAuto ==
    /\ Init
    /\ [][NextAuto]_vars
    /\ WF_vars(Tick(Instants(SESSION_MS)))
    /\ WF_vars(TimerFires)

\* The body of an update that makes the record a reference record.
RaceBodies == {[NoFields EXCEPT !.reference = Bool(TRUE)]}

\* Two requests at a time on the backend's one record: updates that set the
\* reference flag, completes and deletes, their handlers interleaved at their
\* awaits.
NextRace ==
    \/ Tick(Early)
    \/ PostLogin(Admin, Secret)
    \/ \E b \in CreateBodies : PostBugs(Held, b, 1, 0)
    \/ \E slot \in Slots, route \in RaceRoutes, b \in RaceBodies :
          AwaitGetBug(slot, route, 1, b)
    \/ \E slot \in Slots : AfterGetBug(slot)

SpecRace == Init /\ [][NextRace]_vars

\* The client polling the store it writes to, the store answering: the session
\* stays within its first instants, and the writes end with the bound on them.
NextPoll ==
    \/ handleLogin(Admin, Secret, FALSE)
    \/ Refresh(FALSE)
    \/ \E f \in CreateForms, id \in Ids : addBug(f, id, FALSE)
    \/ \E id \in Ids : markCompleted(id, FALSE)
    \/ \E id \in Ids : App_deleteBug(id, TRUE, FALSE)
    \/ \E p \in inflight : Deliver(p)

\* The interval of the periodic refresh keeps firing, and responses arrive.
PollFairness ==
    /\ WF_vars(Refresh(FALSE))
    /\ WF_vars(\E p \in inflight : Deliver(p))

SpecPoll == Init /\ [][NextPoll]_vars /\ PollFairness

\* The same, with page loads.
NextSync == NextPoll \/ PageLoad

SpecSync == Init /\ [][NextSync]_vars /\ PollFairness

\* The client with the store answering or failing, and logout: one record.
NextFail ==
    \/ Tick(Early)
    \/ handleLogin(Admin, Secret, FALSE)
    \/ handleLogout
    \/ \E down \in BOOLEAN : Refresh(down)
    \/ \E down \in BOOLEAN : addBug(Form(Str(<<"fix X">>), FALSE), 1, down)
    \/ \E down \in BOOLEAN : clearAll(TRUE, down)
    \/ \E down \in BOOLEAN : markCompleted(1, down)
    \/ \E down \in BOOLEAN : App_deleteBug(1, TRUE, down)
    \/ \E f \in EditForms, down \in BOOLEAN : App_updateBug(f, down)
    \/ Select_(1)
    \/ \E p \in inflight : Deliver(p)

SpecFail == Init /\ [][NextFail]_vars

\* The create form with labels, and the labels of the filter's buttons.
ViewLabels == {Str(<<"TSO">>), Str(<<"Accounts / login">>)}
ViewForms ==
    {[Form(Str(<<"fix X">>), FALSE) EXCEPT !.label = l] : l \in ViewLabels \cup {Str(<<>>)}}

\* The client's view: labelled and unlabelled records, open and completed, the
\* tabs and the label filter.
NextView ==
    \/ handleLogin(Admin, Secret, FALSE)
    \/ \E f \in ViewForms, id \in Ids : addBug(f, id, FALSE)
    \/ \E id \in Ids : markCompleted(id, FALSE)
    \/ \E tab \in {"open", "completed"} : setViewTab(tab)
    \/ \E l \in ViewLabels : toggleLabelFilter(l)
    \/ resetLabelFilters
    \/ \E p \in inflight : Deliver(p)

SpecView == Init /\ [][NextView]_vars

\* The create form with every impact and likelihood of its two selects.
RiskForms ==
    {[Form(Str(<<"fix X">>), FALSE) EXCEPT !.impact = Num(i), !.likelihood = Num(l)] :
        i \in 1..5, l \in 1..5}

\* The client's records over the risk matrix: one record at a time.
NextRisk ==
    \/ handleLogin(Admin, Secret, FALSE)
    \/ \E f \in RiskForms : addBug(f, 1, FALSE)
    \/ App_deleteBug(1, TRUE, FALSE)
    \/ \E p \in inflight : Deliver(p)

SpecRisk == Init /\ [][NextRisk]_vars

-----------------------------------------------------------------------------
(* Properties of the backend's bulk delete, under Spec *)

\* A step in which the backend answered a request to the given route.
Answered(route) ==
    /\ resp'.route = route
    /\ (resp' # resp \/ table' # table)

\* The rows flagged as reference records.
ReferenceRows(t) == {r \in t : r.reference = Bool(TRUE)}

\* C3: when at least one non-reference record exists, the bulk delete (by a
\* caller that passed the gate, the store answering) removes every record with
\* reference = false, removes no record with reference = true, and reports as
\* preserved the number of reference records that remain in the store.
C3_BulkDeleteRemovesNonReference ==
    [][ ( /\ Answered("DELETE /api/bugs")
          /\ resp'.status # 401
          /\ ~resp'.failed
          /\ table # ReferenceRows(table) )
        => ( /\ resp'.status = 204
             /\ table' = ReferenceRows(table)
             /\ resp'.preserved = Cardinality(ReferenceRows(table')) ) ]_vars

\* A bulk delete has answered 204 and preserved a reference record.
C3_Witness ==
    /\ resp.route = "DELETE /api/bugs"
    /\ resp.status = 204
    /\ resp.preserved = 1
    /\ Cardinality(table) = 1

\* C4: when every record of the collection has reference = true, the bulk
\* delete fails with Forbidden (403) and the store's set of records is unchanged.
C4_AllReferenceForbidden ==
    [][ ( /\ Answered("DELETE /api/bugs")
          /\ resp'.status # 401
          /\ table = ReferenceRows(table) )
        => ( /\ resp'.status = 403
             /\ table' = table ) ]_vars

\* A bulk delete on a store that holds reference records only was refused.
C4_Witness ==
    /\ resp.route = "DELETE /api/bugs"
    /\ resp.status = 403
    /\ table # {}
    /\ table = ReferenceRows(table)

-----------------------------------------------------------------------------
(* Completion is one-way, under Spec *)

\* C5: once a record's completedAt has been set, no operation changes it to a
\* different timestamp or clears it, for as long as the record exists.
C5_CompletedAtNeverChanges ==
    [][ \A r \in table : \A q \in table' :
            (Truthy(r.completedAt) /\ q.id = r.id) => q.completedAt = r.completedAt ]_vars

-----------------------------------------------------------------------------
(* The backend's gate, under Spec *)

Gated ==
    {"GET /api/bugs", "POST /api/bugs", "GET /api/bugs/:id", "PUT /api/bugs/:id",
     "POST /api/bugs/:id/complete", "DELETE /api/bugs/:id", "DELETE /api/bugs"}

\* The request carries a valid credential at the given instant: a bearer token
\* that a login issued and that has not expired.
ValidCredential(auth, at) ==
    /\ auth.scheme = "Bearer"
    /\ auth.tok.sig = "JWT_SECRET"
    /\ at \div 1000 < auth.tok.exp

\* C6: a create, update, complete, delete, bulk delete or read of the records by
\* a caller without a valid credential is answered Unauthorized (401) and makes
\* no call of the record store.
C6_AnonymousUnauthorized ==
    [][ ( /\ resp'.route \in Gated
          /\ (resp' # resp \/ table' # table)
          /\ ~ValidCredential(resp'.auth, now) )
        => ( /\ resp'.status = 401
             /\ resp'.calls = 0
             /\ table' = table ) ]_vars

\* A delete of a stored record with a token of another signer was refused.
C6_Witness ==
    /\ resp.route = "DELETE /api/bugs/:id"
    /\ resp.auth.scheme = "Bearer"
    /\ ~ValidCredential(resp.auth, now)
    /\ resp.status = 401
    /\ HasRow(table, resp.id)

-----------------------------------------------------------------------------
(* Login, under SpecLogin *)

\* C7: a login succeeds only when the supplied username and password equal the
\* configured values; any other attempt is answered invalid credentials and
\* leaves the session as it was; with the expected username or password not
\* configured every attempt fails.  Stated of the backend's route and of the
\* client's form.
C7_LoginOnlyOnMatch ==
    [][ /\ \A u \in LoginValues, p \in LoginValues :
              PostLogin(u, p) =>
                 IF Truthy(EXPECT_USER) /\ Truthy(EXPECT_PASS)
                    /\ u = EXPECT_USER /\ p = EXPECT_PASS
                 THEN resp'.status = 200
                 ELSE resp'.status = 401 /\ token' = token
        /\ \A u \in LoginValues, p \in LoginValues :
              handleLogin(u, p, FALSE) =>
                 IF Truthy(APP_USER) /\ Truthy(APP_PASS) /\ u = APP_USER /\ p = APP_PASS
                 THEN authUser' = u
                 ELSE authUser' = Null /\ Truthy(loginError') ]_vars

-----------------------------------------------------------------------------
(* The client's session, under SpecSession *)

\* The step sends a request to the record store.
SendsRequest == inflight' \ inflight # {} \/ writes' # writes

\* C8: with a login at T and a session of D = 5 minutes, a gated operation
\* attempted up to T + D - 1 ms is accepted, and none is accepted from
\* T + D + 1 ms on: such an attempt sends nothing to the record store and leaves
\* the session cleared.  T is the start the session recorded, as the step
\* leaves it.
C8_ExpiryOnEachOperation ==
    [][ /\ SendsRequest => now <= StoredTs(localStorage') + SESSION_MS
        /\ ( /\ Truthy(authUser)
             /\ now < StoredTs(localStorage) + SESSION_MS
             /\ Refresh(FALSE) )
           => SendsRequest ]_vars

\* C9: a page load before the session's expiry leaves the session authenticated
\* and the client able to send its gated operations: the store handle that
\* reload, addBug, clearAll, markCompleted, deleteBug and updateBug require is
\* there without a new login.
C9_SessionSurvivesPageLoad ==
    [][ ( /\ PageLoad
          /\ Truthy(authUser)
          /\ now < StoredTs(localStorage) + SESSION_MS )
        => ( /\ authUser' = authUser
             /\ supabase' ) ]_vars

\* C10: the session's start timestamp is written only by a successful login,
\* with the time of that login; any other step leaves it or removes it with the
\* session, and an armed auto-logout is due at start + 5 minutes.
C10_StartWrittenOnlyByLogin ==
    [][ /\ localStorage'.bugauth_ts # localStorage.bugauth_ts
           => \/ localStorage'.bugauth_ts = Null
              \/ /\ authUser = Null
                 /\ authUser' = APP_USER
                 /\ localStorage'.bugauth_ts = Str(DigitsOf(now))
        /\ timer' # 0 => timer' = StoredTs(localStorage') + SESSION_MS ]_vars

\* A session that started earlier is still running after the page was loaded
\* again and a record was written.
C10_Witness ==
    /\ Truthy(authUser)
    /\ StoredTs(localStorage) = T0
    /\ now = T0 + SESSION_MS - 1
    /\ timer = T0 + SESSION_MS
    /\ table # {}
    /\ ~supabase

-----------------------------------------------------------------------------
(* Completion and reference records in the client, under SpecApp *)

\* The requests of the given kinds that the step sends.
Sent(kinds) == {p \in inflight' \ inflight : p.kind \in kinds}

\* C1: a complete of a record that is already completed fails and leaves the
\* stored completedAt as the first complete set it.
C1_SecondCompleteConflict ==
    [][ \A p \in Sent({"complete"}) :
            (HasRow(table, p.id) /\ Truthy(RowOf(table, p.id).completedAt))
            => (~p.ok /\ table' = table) ]_vars

\* C2: a complete or a delete of a record whose reference flag is true fails
\* and leaves the record present, its completedAt unchanged.
C2_ReferenceProtected ==
    [][ \A p \in Sent({"complete", "delete"}) :
            (HasRow(table, p.id) /\ Truthy(RowOf(table, p.id).reference))
            => (~p.ok /\ table' = table) ]_vars

-----------------------------------------------------------------------------
(* Validation and frame of the backend's create and update, under SpecEdit *)

\* The step is the answer to a create, or to an update of the given id, that
\* passed the gate.
Created == resp'.route = "POST /api/bugs" /\ resp'.status # 401
Updated(id) == resp'.route = "PUT /api/bugs/:id" /\ resp'.id = id /\ resp'.status # 401

\* The description is a string that is non-empty after trimming.
HasText(v) == v.t = "string" /\ Trim(v.s) # <<>>

\* C12: create fails with a validation error (400), storing nothing, when the
\* description is empty after trimming; a create that succeeds stores the
\* trimmed description, which is non-empty.
C12_CreateNeedsDescription ==
    [][ \A b \in EditCreateBodies :
            (Created /\ PostBugs(Held, b, 1, 0))
            => IF HasText(b.description)
               THEN resp'.status = 201
                    => RowOf(table', 1).description = Str(Trim(b.description.s))
               ELSE resp'.status = 400 /\ table' = table ]_vars

\* A label is supplied that is not in the list.
BadLabel(v) == Truthy(v) /\ v \notin ALLOWED_LABELS

\* C13: create and update fail with a validation error (400), writing nothing,
\* when a label is supplied that is not one of the allowed labels, and every
\* stored record's label is absent or one of the six allowed labels.
C13_LabelsAllowed ==
    [][ /\ \A b \in EditCreateBodies :
              (Created /\ BadLabel(b.label) /\ PostBugs(Held, b, 1, 0))
              => (resp'.status = 400 /\ table' = table)
        /\ \A id \in Ids, b \in EditPutBodies :
              (Updated(id) /\ BadLabel(b.label) /\ PutBug(Held, id, b, 0))
              => (resp'.status = 400 /\ table' = table)
        /\ \A r \in table' : r.label = Null \/ r.label \in ALLOWED_LABELS
        /\ Cardinality(ALLOWED_LABELS) = 6 ]_vars

\* A labelled record is stored and an update with a label outside the list was
\* refused.
C13_Witness ==
    /\ resp.route = "PUT /api/bugs/:id"
    /\ resp.status = 400
    /\ \E r \in table : r.id = resp.id /\ r.label = Str(<<"TSO">>)

\* The value is missing or does not convert to a number.
NonNumeric(v) == ToNumber(v) = NaN

\* C15: every stored record has impact and likelihood in 1..5, and a create or
\* update whose impact is missing (create) or non-numeric (create, update)
\* stores 1 for it.
C15_ImpactInRange ==
    [][ /\ \A r \in table' :
              /\ r.impact.t = "number" /\ r.impact.n \in 1..5
              /\ r.likelihood.t = "number" /\ r.likelihood.n \in 1..5
        /\ \A b \in EditCreateBodies :
              ( /\ Created
                /\ HasText(b.description) /\ ~BadLabel(b.label)
                /\ ~HasRow(table, 1)
                /\ NonNumeric(b.impact)
                /\ PostBugs(Held, b, 1, 0) )
              => (resp'.status = 201 /\ RowOf(table', 1).impact = Num(1))
        /\ \A id \in Ids, b \in EditPutBodies :
              ( /\ Updated(id)
                /\ HasRow(table, id)
                /\ b.impact # Undefined /\ NonNumeric(b.impact)
                /\ PutBug(Held, id, b, 0) )
              => (resp'.status = 200 /\ RowOf(table', id).impact = Num(1)) ]_vars

\* C16: a record's id and createdAt never change after creation: every step
\* leaves the createdAt of each record that stays in the store as it was.
C16_IdAndCreatedAtFixed ==
    [][ \A r \in table : \A q \in table' :
            q.id = r.id => q.createdAt = r.createdAt ]_vars

\* A record created earlier has since been completed and had its description
\* updated.
C16_Witness ==
    \E r \in table :
        /\ r.createdAt.n < now
        /\ Truthy(r.completedAt)
        /\ r.description = Str(<<"fix Z">>)

UpdatableFields ==
    {"ticket", "description", "jiraLink", "impact", "likelihood", "label", "reference",
     "completedAt"}

-----------------------------------------------------------------------------
(* Store failures at the backend, under Spec *)

\* C18: whenever the record store returns an error during an operation, the
\* caller receives a failure (500): never a success, an empty result, NotFound
\* or Forbidden.
C18_StoreFailureSurfaced ==
    [][ (resp' # resp /\ resp'.failed) => resp'.status = 500 ]_vars

-----------------------------------------------------------------------------
(* The client's cache and the store's answers, under SpecFail *)

\* C11: the local cache of records changes only when a response arrives that
\* the store answered without an error; the step that sends a request leaves
\* the cache as it is, and so does the arrival of an error.
C11_CacheAfterConfirmation ==
    [][ /\ bugs' # bugs => \E p \in inflight : p.ok /\ inflight' = inflight \ {p}
        /\ SendsRequest => bugs' = bugs
        /\ \A p \in inflight : (~p.ok /\ Deliver(p)) => bugs' = bugs ]_vars

\* A complete that the store refused has been answered: the error is shown and
\* the cached record is still open.
C11_Witness ==
    /\ error = Str(<<"Fout bij afronden">>)
    /\ inflight = {}
    /\ Len(bugs) = 1
    /\ ~Truthy(bugs[1].completedAt)

\* C19: a response that arrives after a logout is not applied: the cache of
\* records and the session state stay as the logout left them.
C19_LateResponsesIgnored ==
    [][ \A p \in inflight :
            (authUser = Null /\ Deliver(p))
            => (bugs' = bugs /\ authUser' = authUser /\ localStorage' = localStorage) ]_vars

-----------------------------------------------------------------------------
(* The displayed records, under SpecView *)

\* The labels of the filter, as a set.
FilterSet == {labelFilters[i] : i \in DOMAIN labelFilters}

\* The record's status matches the tab; its label is one of the filter's.
OnTab(b, tab) == (tab = "open") <=> (b.completedAt \in {Null, Undefined})
Selected(b) == FilterSet = {} \/ b.label \in FilterSet

\* C20: the displayed records are exactly the cached records whose status
\* matches the active tab and, with a non-empty filter, whose label is in the
\* filter; with an empty filter every cached record is displayed under exactly
\* one of the two tabs.
C20_DisplayedSet ==
    /\ displayedBugs = SelectSeq(bugs, LAMBDA b : OnTab(b, viewTab) /\ Selected(b))
    /\ \A i \in DOMAIN bugs :
          LET open == displayedBugsOf(<<bugs[i]>>, "open", <<>>)
              completed == displayedBugsOf(<<bugs[i]>>, "completed", <<>>)
          IN Len(open) + Len(completed) = 1

\* With one label in the filter and two open records in the cache, the record
\* with that label is displayed and the record with another label is hidden.
C20_Witness ==
    /\ viewTab = "open"
    /\ Len(labelFilters) = 1
    /\ Len(bugs) = 2
    /\ Len(displayedBugs) = 1
    /\ \E i \in DOMAIN bugs :
          /\ OnTab(bugs[i], viewTab)
          /\ Truthy(bugs[i].label)
          /\ bugs[i].label \notin FilterSet

\* A completed record is in the cache and is displayed on the completed tab
\* under a filter that holds its label.
C20_WitnessCompleted ==
    /\ viewTab = "completed"
    /\ Len(labelFilters) = 1
    /\ Len(displayedBugs) = 1

-----------------------------------------------------------------------------
(* Risk scoring, under SpecRisk *)

\* The bands of the risk score.
Band(score) ==
    CASE score <= 4 -> "Laag"
      [] score \in 5..8 -> "Gemiddeld"
      [] score \in 9..12 -> "Hoog"
      [] score >= 13 -> "Kritiek"

Rank(category) ==
    CASE category = "Laag" -> 1
      [] category = "Gemiddeld" -> 2
      [] category = "Hoog" -> 3
      [] category = "Kritiek" -> 4

\* C14: for all impact and likelihood in 1..5 the score is their product and
\* its category is Laag (low) up to 4, Gemiddeld (medium) for 5..8, Hoog (high)
\* for 9..12 and Kritiek (critical) from 13; the category's rank never
\* decreases as the score increases.  Stated of the cached records and of
\* every pair of the matrix.
C14_RiskBands ==
    /\ \A k \in DOMAIN bugs :
          /\ bugs[k].impact.n \in 1..5 /\ bugs[k].likelihood.n \in 1..5
          /\ riskScore(bugs[k]) = bugs[k].impact.n * bugs[k].likelihood.n
          /\ riskCategory(riskScore(bugs[k])) = Band(riskScore(bugs[k]))
    /\ \A i \in 1..5, l \in 1..5 : riskCategory(i * l) = Band(i * l)
    /\ \A a \in 1..25, b \in 1..25 :
          a <= b => Rank(riskCategory(a)) <= Rank(riskCategory(b))

\* A record whose score lies on the edge of a band is in the cache.
C14_Witness ==
    /\ Len(bugs) = 1
    /\ riskScore(bugs[1]) = 12
    /\ riskCategory(riskScore(bugs[1])) = "Hoog"

-----------------------------------------------------------------------------
(* The bulk delete of an empty collection, under Spec *)

\* C27: the bulk delete on a collection of zero records fails with Forbidden
\* (403), since 0 preserved equals 0 in total, and it makes no delete call to
\* the store: the listing is its only call and the store is unchanged.
C27_EmptyBulkDeleteForbidden ==
    [][ ( /\ Answered("DELETE /api/bugs")
          /\ resp'.status # 401
          /\ table = {} )
        => ( /\ resp'.status = 403
             /\ resp'.calls = 1
             /\ resp'.preserved = -1
             /\ table' = table ) ]_vars

\* A bulk delete on the empty collection was refused after its listing.
C27_Witness ==
    /\ resp.route = "DELETE /api/bugs"
    /\ resp.status = 403
    /\ resp.calls = 1
    /\ ~resp.failed
    /\ table = {}

-----------------------------------------------------------------------------
(* What a create stores, under SpecCreate *)

\* The ids of the rows.
IdsOf(t) == {r.id : r \in t}

\* The reference flag as supplied: false when it is not supplied.
Supplied(v) == IF v \in {Undefined, Null} THEN Bool(FALSE) ELSE v

\* The row the step added to the table.
Added == CHOOSE q \in table' \ table : TRUE

\* The step is a create that succeeded: by the backend, or by the client.
CreatedOk == resp'.route = "POST /api/bugs" /\ resp'.status = 201 /\ resp' # resp
InsertedOk == \E p \in Sent({"insert"}) : p.ok

\* A successful create adds one row, which is open and whose id no row of the
\* table had.
OpenAndFresh ==
    /\ Cardinality(table' \ table) = 1
    /\ table \subseteq table'
    /\ Added.completedAt = Null
    /\ Added.id \notin IdsOf(table)

\* C22: every successful create stores a record that is open whatever the input
\* holds, with an id that no record of the store has, and with reference equal
\* to the supplied flag, false when none is supplied.
C22_CreateOpenFreshVerbatim ==
    [][ /\ \A b \in FlagBodies, id \in Ids :
              (CreatedOk /\ PostBugs(Held, b, id, 0))
              => (OpenAndFresh /\ Added.id = id /\ Added.reference = Supplied(b.reference))
        /\ \A f \in CreateForms, id \in Ids :
              (InsertedOk /\ addBug(f, id, FALSE))
              => (OpenAndFresh /\ Added.id = id /\ Added.reference = f.reference) ]_vars

\* The parts of C22 that do not depend on the form of the flag: open, and a
\* fresh id.
C22_CreateOpenFresh ==
    [][ (CreatedOk \/ InsertedOk) => OpenAndFresh ]_vars

\* C22 for flags that are booleans or absent.
C22_BooleanFlags ==
    [][ \A b \in FlagBodies, id \in Ids :
            (CreatedOk /\ b.reference.t # "string" /\ PostBugs(Held, b, id, 0))
            => Added.reference = Supplied(b.reference) ]_vars

-----------------------------------------------------------------------------
(* The sorted view, under SpecSort *)

\* The product of a record's impact and likelihood.
Product(b) == b.impact.n * b.likelihood.n

\* The bijections of 1..n: sorted[i] is displayed[f[i]].
Perms(n) == {f \in [1..n -> 1..n] : \A i, j \in 1..n : i # j => f[i] # f[j]}

\* out holds the records of inp in an order that keeps, for records of equal
\* score, the order they have in inp.
StablePermutation(out, inp) ==
    /\ Len(out) = Len(inp)
    /\ \E f \in Perms(Len(inp)) :
          /\ \A i \in DOMAIN out : out[i] = inp[f[i]]
          /\ \A i, j \in DOMAIN out :
                (i < j /\ Product(out[i]) = Product(out[j])) => f[i] < f[j]

\* C21: the sorted view is a permutation of the displayed records; sorted by
\* score descending the products impact * likelihood never increase along it,
\* ascending they never decrease, records of equal score keep their relative
\* order, and with sorting off the order is that of the displayed records.
C21_SortedView ==
    /\ StablePermutation(sortedBugs, displayedBugs)
    /\ (sortField = "score" /\ sortDir = "desc")
          => \A i, j \in DOMAIN sortedBugs :
                i < j => Product(sortedBugs[i]) >= Product(sortedBugs[j])
    /\ (sortField = "score" /\ sortDir = "asc")
          => \A i, j \in DOMAIN sortedBugs :
                i < j => Product(sortedBugs[i]) <= Product(sortedBugs[j])
    /\ sortField = "none" => sortedBugs = displayedBugs

\* Three records are displayed, two of the same score behind one of a lower
\* score; sorted descending, the view differs from the displayed order and the
\* two keep their order.
C21_Witness ==
    /\ sortField = "score" /\ sortDir = "desc"
    /\ Len(displayedBugs) = 3
    /\ Product(displayedBugs[1]) = 5
    /\ Product(displayedBugs[2]) = 6 /\ Product(displayedBugs[3]) = 6
    /\ displayedBugs[2] # displayedBugs[3]
    /\ sortedBugs = <<displayedBugs[2], displayedBugs[3], displayedBugs[1]>>

-----------------------------------------------------------------------------
(* The end of a session, under SpecAuto *)

\* C23: an authenticated session becomes anonymous without an action of the
\* user: once the clock passes the expiry the client logs out by itself,
\* removing the stored user and timestamp, given that the timeout fires.
C23_SessionEnds ==
    Truthy(authUser) ~> (authUser = Null /\ localStorage = NoSession)

\* The timeout has logged out the page that logged in: the clock is past the
\* expiry, the page still holds the store's handle, and the session is gone.
C23_Witness ==
    /\ now >= T0 + SESSION_MS
    /\ supabase
    /\ authUser = Null
    /\ localStorage = NoSession
    /\ timer = 0

-----------------------------------------------------------------------------
(* Concurrent requests on the backend, under SpecRace *)

\* The requests that answer in this step, with the status they answer.
Answering(route, status) ==
    {s \in Slots : /\ requests[s].pc = "await"
                   /\ requests'[s].pc = "done"
                   /\ requests[s].route = route
                   /\ requests'[s].status = status}

\* C24: of two concurrent completes of one open record that is not a reference
\* record, at most one returns success, and completedAt is written once: no
\* complete answers 200 for a row that holds a completedAt when it answers.
C24_OneCompleteSucceeds ==
    [][ \A s \in Answering("POST /api/bugs/:id/complete", 200) :
            /\ HasRow(table, requests[s].id)
            /\ ~Truthy(RowOf(table, requests[s].id).completedAt) ]_vars

\* C25: when an update that sets reference = true is interleaved with a delete
\* or a complete of the same record, no record is removed, and none is given a
\* completedAt, while its stored reference flag is true.
C25_ReferenceKeptUnderRace ==
    [][ \A r \in table :
            Truthy(r.reference)
            => /\ HasRow(table', r.id)
               /\ Truthy(RowOf(table', r.id).completedAt) => Truthy(r.completedAt) ]_vars

-----------------------------------------------------------------------------
(* The cache and the store, under SpecSync *)

\* The cache holds the store's records, ordered by creation time ascending.
InSync == bugs = MapRows(Ordered(table))

\* C26: while the session stays authenticated and the store answers, once the
\* writes have stopped the cache comes to equal the store's list of records,
\* in whatever order a refresh's response and a confirmed write arrived.
C26_CacheConverges == Truthy(authUser) ~> InSync

\* C26 for a page that holds the store's handle: the cache comes to equal the
\* store's list and stays equal to it.
C26_PollingConverges == Truthy(authUser) ~> []InSync

\* A refresh's response that was sent before a confirmed create arrives after
\* it: the cache loses the record until the next refresh.
C26_StaleRefresh ==
    /\ Truthy(authUser)
    /\ writes = 1
    /\ Cardinality(table) = 1
    /\ bugs = <<>>
    /\ inflight = {}

====
